---- MODULE Spec2Model ----
(***************************************************************************)
(* Model of the Amazon product scraper (src/scraper.py): the price         *)
(* strategy chain (PriceExtractor.get_price), price text parsing           *)
(* (PriceExtractor.extract_price_value), per-item detail extraction        *)
(* (AmazonScraper.get_product_details), listing discovery and the          *)
(* orchestration loop (AmazonScraper.scrape_top_products), the SQLite      *)
(* store (DatabaseManager), main, and the statistics endpoint of           *)
(* src/api_server.py (get_stats).                                          *)
(*                                                                         *)
(* The browser is an input: a "page" is a record of what each browser call *)
(* made while one detail page is processed answers (an element is found    *)
(* or not, a call raises or not).  Money is in cents.  An Optional value   *)
(* is a sequence: <<>> is None, <<v>> is v.                                *)
(***************************************************************************)
EXTENDS Integers, Sequences, FiniteSets, TLC

VARIABLES
    pc,           \* where the modelled call stands
    raw,          \* discovery: what each located container's data-asin reads
    maxProducts,  \* discovery: max_products
    disc,         \* discovery: how the category page load ended
    asins,        \* scrape_top_products: asins
    idx,          \* scrape_top_products: items of asins already iterated
    products,     \* scrape_top_products: products
    log,          \* history: one entry per iterated item
    store,        \* the products table: its rows and its AUTOINCREMENT counter
    saves,        \* history: the save_product calls and how each ended
    runs,         \* history: DatabaseManager constructions on this database
    page,         \* one detail page
    result,       \* what get_product_details made of page
    argvUrl,      \* main: whether a category URL was given on the command line
    session,      \* main: the browser session: "none", "open", "closed"
    ending,       \* main: how the try block of main ended
    exitCode,     \* main: the exit code of the process, -1 while it runs
    text,         \* extract_price_value: price_text, a sequence of characters
    parsed,       \* extract_price_value: what it returned for text
    stats         \* get_stats: the statistics it answered from the table

discVars == <<raw, maxProducts>>
runVars == <<disc, asins, idx, products, log>>
storeVars == <<store, saves, runs>>
itemVars == <<page, result>>
mainVars == <<argvUrl, session, ending, exitCode>>
parseVars == <<text, parsed>>
statsVars == <<stats>>

vars == <<pc, discVars, runVars, storeVars, itemVars, mainVars, parseVars,
          statsVars>>

None == <<>>
Some(v) == <<v>>

Take(s, k) == SubSeq(s, 1, IF k < Len(s) THEN k ELSE Len(s))

Range(s) == {s[i] : i \in 1..Len(s)}

(***************************************************************************)
(* Page facts.  Raises (-1): the browser call raises; NoMatch (0): nothing *)
(* found, or text that holds no positive price; > 0: the price read.       *)
(***************************************************************************)
Raises == -1
NoMatch == 0

\* try_options_text: "N options from $X" in one of the small text spans.
try_options_text(p) ==
    IF p.optionsText > 0 THEN Some(<<p.optionsText, "$">>) ELSE None

\* The first element of elems whose text holds "$" and a positive price.
RECURSIVE FirstPriced(_)
FirstPriced(elems) ==
    IF elems = <<>> THEN None
    ELSE IF Head(elems) > 0 THEN Some(<<Head(elems), "$">>)
    ELSE FirstPriced(Tail(elems))

VariantLook == 3
OffscreenLook == 5

\* try_select_variant clicks the first variant when there is one.
VariantClicked(p) == p.variants = "present"

\* try_select_variant: click the first variant, then the first three
\* offscreen price nodes.
try_select_variant(p) ==
    IF p.variants = "present" THEN FirstPriced(Take(p.offscreen, VariantLook))
    ELSE None

\* try_offscreen_elements: the first five offscreen price nodes.
try_offscreen_elements(p) == FirstPriced(Take(p.offscreen, OffscreenLook))

\* try_visible_price: whole + fraction, parsed as "$whole.fraction".
try_visible_price(p) ==
    IF p.visible > 0 THEN Some(<<p.visible, "$">>) ELSE None

\* try_javascript_search: the first span.a-offscreen of the whole page with
\* "$" and a positive value.
try_javascript_search(p) ==
    IF p.js > 0 THEN Some(<<p.js, "$">>) ELSE None

\* try_data_attributes: data-a-price's symbol + amount.
try_data_attributes(p) ==
    IF p.dataAttr > 0 THEN Some(<<p.dataAttr, p.dataSymbol>>) ELSE None

\* The methods list with the page-wide scans tried before the variant click.
MethodsScansFirst ==
    << "try_options_text", "try_offscreen_elements", "try_select_variant",
       "try_visible_price", "try_javascript_search", "try_data_attributes" >>

\* The methods list of get_price, in its order.
Methods ==
    << "try_options_text", "try_select_variant", "try_offscreen_elements",
       "try_visible_price", "try_javascript_search", "try_data_attributes" >>

\* method(): the call of one entry of the methods list.
CallMethod(m, p) ==
    CASE m = "try_options_text" -> try_options_text(p)
      [] m = "try_select_variant" -> try_select_variant(p)
      [] m = "try_offscreen_elements" -> try_offscreen_elements(p)
      [] m = "try_visible_price" -> try_visible_price(p)
      [] m = "try_javascript_search" -> try_javascript_search(p)
      [] m = "try_data_attributes" -> try_data_attributes(p)

Sentinel == [price |-> 0, currency |-> "$"]

\* "if result: return result": the loop ends at the first method with a result.
StopsAt(r) == r # None

\* for method in methods: result = method(); if result: return result
RECURSIVE RunMethods(_, _, _)
RunMethods(p, i, invoked) ==
    IF i > Len(Methods)
    THEN [price |-> Sentinel.price, currency |-> Sentinel.currency,
          invoked |-> invoked]
    ELSE LET r == CallMethod(Methods[i], p)
             inv == Append(invoked, Methods[i])
         IN IF StopsAt(r)
            THEN [price |-> r[1][1], currency |-> r[1][2], invoked |-> inv]
            ELSE RunMethods(p, i + 1, inv)

\* The availability check comparing the whole text instead of searching it.
FoundUnavailableWholeText(p) == p.avail = "Currently unavailable."

\* The availability check: some status indicator's text holds "unavailable".
\* A raise of find_elements is swallowed and the chain runs.
FoundUnavailable(p) == p.avail = "unavailable"

\* get_price: the wait for the title (swallowed), the scroll (not guarded),
\* the availability check, then the methods.  raised: the call raised.
get_price(p) ==
    IF p.scroll = "raise"
    THEN [raised |-> TRUE, price |-> 0, currency |-> "$", invoked |-> <<>>,
          clicked |-> FALSE]
    ELSE IF FoundUnavailable(p)
    THEN [raised |-> FALSE, price |-> Sentinel.price,
          currency |-> Sentinel.currency, invoked |-> <<>>, clicked |-> FALSE]
    ELSE LET r == RunMethods(p, 1, <<>>)
         IN [raised |-> FALSE, price |-> r.price, currency |-> r.currency,
             invoked |-> r.invoked,
             clicked |-> ("try_select_variant" \in Range(r.invoked)
                          /\ VariantClicked(p))]

(***************************************************************************)
(* get_product_details.  details is the dict it returns: a function from   *)
(* the keys set so far.  ran: the sub-extractions that were started.       *)
(***************************************************************************)
EmptyDict == [k \in {} |-> 0]

SubExtractions ==
    { "title", "price", "list_price", "rating", "reviews_count",
      "bullet_points", "best_sellers_rank", "main_image_url", "is_prime" }

\* round(x, 2) of a / b * 100 in hundredths: to the nearest, ties to even.
RoundDiv(a, b) ==
    LET q == a \div b
        r == a % b
    IN IF 2 * r > b THEN q + 1
       ELSE IF 2 * r < b THEN q
       ELSE IF q % 2 = 0 THEN q ELSE q + 1

\* ((list_price - price) / list_price) * 100, rounded to 2 decimals, in
\* hundredths of a percent.
Discount(list_price, price) == RoundDiv((list_price - price) * 10000, list_price)

\* The title block with the default of ProductModel for a placeholder.
TitleOfNA(asin, p) ==
    IF p.title = None THEN "N/A" ELSE p.title[1]

\* The title block: the text of #productTitle, or the placeholder.
TitleOf(asin, p) ==
    IF p.title = None THEN "Product " \o asin ELSE p.title[1]

\* The list price block without its "price > 0" test.
ListPriceKeysAnyPrice(p, price) ==
    IF p.listPrice > 0
    THEN ("list_price" :> p.listPrice)
         @@ ("discount_percent" :> Discount(p.listPrice, price))
    ELSE EmptyDict

\* The list price block: the keys it adds for a price read by get_price.
ListPriceKeys(p, price) ==
    IF p.listPrice > 0 /\ price > 0
    THEN ("list_price" :> p.listPrice)
         @@ ("discount_percent" :> Discount(p.listPrice, price))
    ELSE EmptyDict

\* "if rating:", "if reviews:", "if bullets:", "if bsr:" keep a truthy value.
RatingKeys(p) ==
    IF p.rating # None /\ p.rating[1] # 0 THEN "rating" :> p.rating[1]
    ELSE EmptyDict

ReviewsKeys(p) ==
    IF p.reviews # None /\ p.reviews[1] # 0 THEN "reviews_count" :> p.reviews[1]
    ELSE EmptyDict

BulletKeys(p) ==
    IF p.bullets # "" THEN "bullet_points" :> p.bullets ELSE EmptyDict

BsrKeys(p) ==
    IF p.bsr # None /\ p.bsr[1] # "" THEN "best_sellers_rank" :> p.bsr[1]
    ELSE EmptyDict

\* The image block: the src attribute (None when the element has none).
ImageKeys(p) ==
    IF p.image = "absent" THEN EmptyDict
    ELSE IF p.image = "nosrc" THEN "main_image_url" :> None
    ELSE "main_image_url" :> Some(p.image)

\* What get_product_details does once get_price has raised: the outer
\* except returns the details gathered so far.
AfterPriceFault(d, gp) ==
    [details |-> d, ran |-> {"title", "price"}, gp |-> gp, fault |-> "price"]

NoPrice ==
    [raised |-> FALSE, price |-> 0, currency |-> "$", invoked |-> <<>>,
     clicked |-> FALSE]

get_product_details(asin, p) ==
    IF p.nav = "raise"
    THEN [details |-> EmptyDict, ran |-> {}, gp |-> NoPrice, fault |-> "nav"]
    ELSE LET d1 == "title" :> TitleOf(asin, p)
             gp == get_price(p)
         IN IF gp.raised
            THEN AfterPriceFault(d1, gp)
            ELSE [details |->
                      d1 @@ ("price" :> gp.price) @@ ("currency" :> gp.currency)
                         @@ ListPriceKeys(p, gp.price) @@ RatingKeys(p)
                         @@ ReviewsKeys(p) @@ BulletKeys(p) @@ BsrKeys(p)
                         @@ ImageKeys(p) @@ ("is_prime" :> p.prime),
                  ran |-> SubExtractions, gp |-> gp, fault |-> "none"]

(***************************************************************************)
(* Pages.                                                                  *)
(***************************************************************************)
BasePage ==
    [nav |-> "ok", title |-> Some("Widget"), wait |-> "ok", scroll |-> "ok",
     avail |-> "none", optionsText |-> NoMatch, variants |-> "none",
     offscreen |-> <<1300>>, visible |-> NoMatch, js |-> NoMatch,
     dataAttr |-> NoMatch, dataSymbol |-> "$", listPrice |-> Raises,
     rating |-> None, reviews |-> None, bullets |-> "", bsr |-> None,
     image |-> "absent", prime |-> FALSE]

MaxOffscreen == 4

OffscreenLists == UNION {[1..k -> {NoMatch, 1300}] : k \in 0..MaxOffscreen}

\* Pages that differ in what get_price reads.
PricePages ==
    { [BasePage EXCEPT !.scroll = sc, !.avail = av, !.optionsText = ot,
                       !.variants = va, !.offscreen = os, !.visible = vi,
                       !.js = js, !.dataAttr = da[1], !.dataSymbol = da[2]] :
        sc \in {"ok", "raise"},
        av \in {"none", "instock", "unavailable", "raise"},
        ot \in {Raises, NoMatch, 1100},
        va \in {"none", "present", "raise"},
        os \in OffscreenLists,
        vi \in {NoMatch, 1400},
        js \in {NoMatch, 1500},
        da \in {<<NoMatch, "$">>, <<1600, "$">>, <<1600, "£">>} }

\* Pages that differ in what the other sub-extractions read.
DetailPages ==
    { [BasePage EXCEPT !.nav = na, !.title = ti, !.wait = wa, !.scroll = sc,
                       !.avail = av, !.offscreen = os, !.listPrice = lp,
                       !.rating = ra, !.reviews = re, !.bullets = bu,
                       !.bsr = bs, !.image = im, !.prime = pr] :
        na \in {"ok", "raise"},
        ti \in {None, Some(""), Some("Widget")},
        wa \in {"ok", "timeout"},
        sc \in {"ok", "raise"},
        av \in {"none", "unavailable"},
        os \in {<<>>, <<1500>>},
        lp \in {Raises, NoMatch, 1000, 1799, 2000},
        ra \in {None, Some(0), Some(45)},
        re \in {None, Some(0), Some(120)},
        bu \in {"", "Sturdy steel frame | Folds flat"},
        bs \in {None, Some("#1 in Home & Kitchen")},
        im \in {"absent", "nosrc", "https://img/1.jpg"},
        pr \in BOOLEAN }

NoResult == [details |-> EmptyDict, ran |-> {}, gp |-> NoPrice, fault |-> "idle"]

(***************************************************************************)
(* The products table.  A row is a ProductModel's thirteen columns and the *)
(* AUTOINCREMENT id; scraped_at (the clock) is left out.                   *)
(***************************************************************************)
EmptyStore == [rows |-> {}, seq |-> 0]

Row(id, product) == [id |-> id] @@ product

\* The product columns of a row.
Columns(row) == [f \in DOMAIN row \ {"id"} |-> row[f]]

\* INSERT OR IGNORE in place of INSERT OR REPLACE: a row already stored for
\* the asin is kept as it is.
SaveProductIgnore(st, product, ok) ==
    IF ~ok \/ \E r \in st.rows : r.asin = product.asin THEN st
    ELSE [rows |-> st.rows \cup {Row(st.seq + 1, product)}, seq |-> st.seq + 1]

\* The write committed although the call then fails.
SaveProductNoRollback(st, product, ok) ==
    [rows |-> {r \in st.rows : r.asin # product.asin}
                  \cup {Row(st.seq + 1, product)},
     seq |-> st.seq + 1]

\* save_product: INSERT OR REPLACE on the UNIQUE asin, then commit.  ok is
\* whether sqlite3 did it all; when it raises, nothing is committed, the
\* except logs and the call returns.
SaveProduct(st, product, ok) ==
    IF ~ok THEN st
    ELSE [rows |-> {r \in st.rows : r.asin # product.asin}
                       \cup {Row(st.seq + 1, product)},
          seq |-> st.seq + 1]

\* dict.get(key, default)
Get(d, key, default) == IF key \in DOMAIN d THEN d[key] ELSE default

\* dict.get(key) for an Optional field.
GetOpt(d, key) == IF key \in DOMAIN d THEN Some(d[key]) ELSE None

\* ProductModel(asin=asin, title=details.get("title", "N/A"), rank=rank, ...)
MakeProduct(asin, rank, d) ==
    [asin |-> asin,
     title |-> Get(d, "title", "N/A"),
     rank |-> rank,
     price |-> Get(d, "price", 0),
     currency |-> Get(d, "currency", "$"),
     list_price |-> GetOpt(d, "list_price"),
     discount_percent |-> GetOpt(d, "discount_percent"),
     rating |-> GetOpt(d, "rating"),
     reviews_count |-> GetOpt(d, "reviews_count"),
     is_prime |-> Get(d, "is_prime", FALSE),
     best_sellers_rank |-> GetOpt(d, "best_sellers_rank"),
     bullet_points |-> Get(d, "bullet_points", ""),
     main_image_url |-> Get(d, "main_image_url", None)]

(***************************************************************************)
(* The parts of the state a specification leaves idle.                     *)
(***************************************************************************)
\* main: scrape_top_products(category_url, max_products=5)
MainMaxProducts == 5

NoDiscovery == raw = <<>> /\ maxProducts = MainMaxProducts

NoRun ==
    disc = "pending" /\ asins = <<>> /\ idx = 0 /\ products = <<>> /\ log = <<>>

NoStore == store = EmptyStore /\ saves = <<>> /\ runs = 1

NoItem == page = BasePage /\ result = NoResult

\* A call made outside main: the session is open, the process runs.
NoMain ==
    argvUrl = TRUE /\ session = "open" /\ ending = "running" /\ exitCode = -1

\* No call of extract_price_value on its own.
NotParsed == [done |-> FALSE, value |-> None, currency |-> "$"]

NoParse == text = <<>> /\ parsed = NotParsed

\* No request to /api/stats.
NotAsked == [asked |-> FALSE, total_products |-> 0, average_price |-> 0]

NoStats == stats = NotAsked

(***************************************************************************)
(* SpecItem: one detail page, processed by get_product_details.            *)
(***************************************************************************)
ItemAsin == "B0A"

InitItem ==
    /\ pc = "item"
    /\ page \in PricePages \cup DetailPages
    /\ result = NoResult
    /\ NoDiscovery /\ NoRun /\ NoStore /\ NoMain /\ NoParse /\ NoStats

GetDetails ==
    /\ pc = "item"
    /\ result' = get_product_details(ItemAsin, page)
    /\ pc' = "item_done"
    /\ UNCHANGED <<discVars, runVars, storeVars, page, mainVars, parseVars,
                   statsVars>>

NextItem == GetDetails

SpecItem == InitItem /\ [][NextItem]_vars

(***************************************************************************)
(* Listing discovery: the ASIN collection of scrape_top_products.  raw is  *)
(* the data-asin attribute of each item container (div[data-asin]) of the  *)
(* category page, in DOM order; Stale marks a container whose attribute    *)
(* read raises once it has been located.                                   *)
(***************************************************************************)
Stale == "<stale>"

\* str.strip() on the candidate strings of the model.
Strip(s) == IF s = " " THEN "" ELSE s

\* The selector's :not([data-asin=""]).
Located(a) == a # ""

\* find_elements(By.CSS_SELECTOR, 'div[data-asin]:not([data-asin=""])')
FindElements(containers) == SelectSeq(containers, Located)

\* "asin and asin.strip() and asin not in asins"
Accepts(a, acc) == a # "" /\ Strip(a) # "" /\ a \notin Range(acc)

\* The body of "for elem in elements[: max_products * 2]".
RECURSIVE ScanElements(_, _, _)
ScanElements(elems, acc, n) ==
    IF elems = <<>> THEN acc
    ELSE LET a == Head(elems)
         IN IF a = Stale THEN ScanElements(Tail(elems), acc, n)
            ELSE IF Accepts(a, acc)
            THEN LET acc2 == Append(acc, a)
                 IN IF Len(acc2) >= n THEN acc2
                    ELSE ScanElements(Tail(elems), acc2, n)
            ELSE ScanElements(Tail(elems), acc, n)

\* The collection scanning every located container, not the first 2n.
CollectAsinsUnsliced(containers, n) ==
    ScanElements(FindElements(containers), <<>>, n)

\* asins as collected from the containers of the page.
CollectAsins(containers, n) ==
    ScanElements(Take(FindElements(containers), n * 2), <<>>, n)

Identifiers == {"B0A", "B0B", "B0C"}

RawAlphabet == Identifiers \cup {"", " ", Stale}

MaxRaw == 5
MaxN == 2

RawSeqs == UNION {[1..k -> RawAlphabet] : k \in 0..MaxRaw}

InitDiscovery ==
    /\ pc = "collect"
    /\ raw \in RawSeqs
    /\ maxProducts \in 1..MaxN
    /\ NoRun /\ NoStore /\ NoItem /\ NoMain /\ NoParse /\ NoStats

Collect ==
    /\ pc = "collect"
    /\ asins' = CollectAsins(raw, maxProducts)
    /\ pc' = "collected"
    /\ UNCHANGED <<discVars, disc, idx, products, log, storeVars, itemVars,
                   mainVars, parseVars, statsVars>>

NextDiscovery == Collect

SpecDiscovery == InitDiscovery /\ [][NextDiscovery]_vars

(***************************************************************************)
(* SpecStore: the database under any sequence of save_product calls, over  *)
(* several constructions of DatabaseManager (runs of the scraper).         *)
(***************************************************************************)
MaxCalls == 3
MaxRuns == 2

\* Records a caller may hand to save_product.
StoreProducts ==
    { MakeProduct(a, 1, v) :
        a \in {"B0A", "B0B"},
        v \in { ("title" :> "Widget") @@ ("price" :> 0),
                ("title" :> "Widget") @@ ("price" :> 1500)
                    @@ ("list_price" :> 2000) @@ ("discount_percent" :> 2500),
                ("title" :> "Gadget") @@ ("price" :> 1500) @@ ("is_prime" :> TRUE) } }

InitStore ==
    /\ pc = "store"
    /\ NoDiscovery /\ NoRun /\ NoStore /\ NoItem /\ NoMain /\ NoParse
    /\ NoStats

\* DatabaseManager(): init_database's CREATE TABLE IF NOT EXISTS keeps the
\* table and its rows.
InitDatabase ==
    /\ pc = "store"
    /\ runs < MaxRuns
    /\ runs' = runs + 1
    /\ UNCHANGED <<pc, discVars, runVars, store, saves, itemVars, mainVars,
                   parseVars, statsVars>>

SaveCall ==
    /\ pc = "store"
    /\ Len(saves) < MaxCalls
    /\ \E product \in StoreProducts, ok \in BOOLEAN :
          /\ store' = SaveProduct(store, product, ok)
          /\ saves' = Append(saves, [product |-> product, ok |-> ok])
    /\ UNCHANGED <<pc, discVars, runVars, runs, itemVars, mainVars,
                   parseVars, statsVars>>

NextStore == InitDatabase \/ SaveCall

SpecStore == InitStore /\ [][NextStore]_vars

(***************************************************************************)
(* Spec: one call of scrape_top_products(category_url, max_products=5), on *)
(* a database that is new or holds a row of an earlier run.                *)
(***************************************************************************)
\* How loading the category page ends: driver.get raises, the wait for the
\* item containers times out, a scroll or find_elements raises, or all pass.
DiscoveryOutcomes ==
    {"ok", "get_raises", "wait_timeout", "scroll_raises", "find_raises"}

\* Only a discovery that passed every step reaches the item loop.
DiscoveryFailsOnGetOnly(outcome) == outcome = "get_raises"

\* An exception before the item loop ends the call in the outer except.
DiscoveryFails(outcome) == outcome # "ok"

\* What the located containers read, for the runs of Spec.
OrchRaws ==
    { <<>>,
      <<"B0A", "B0B">>,
      <<"B0A", "", "B0B", "B0A", "B0C", "B0D", "B0B", "B0E">>,
      <<"B0F", "B0A", "B0B", "B0C", "B0D", "B0E">> }

\* The detail pages of the runs of Spec: a plain page, one whose load
\* raises, one whose scroll raises, one without a title element.
OrchPages ==
    { BasePage,
      [BasePage EXCEPT !.nav = "raise"],
      [BasePage EXCEPT !.scroll = "raise"],
      [BasePage EXCEPT !.title = None] }

\* A row an earlier run left for B0A.
OldRow ==
    Row(1, MakeProduct("B0A", 3, ("title" :> "Old widget") @@ ("price" :> 900)
                                 @@ ("list_price" :> 1000)
                                 @@ ("discount_percent" :> 1000)))

Init ==
    /\ pc = "start"
    /\ NoDiscovery /\ NoRun /\ NoItem /\ NoMain /\ NoParse /\ NoStats
    /\ store \in {EmptyStore, [rows |-> {OldRow}, seq |-> 1]}
    /\ saves = <<>> /\ runs = 1

\* Lines 595-625: load the category page and collect the ASINs, the page's
\* containers being one of raws.
DiscoverFrom(raws) ==
    /\ pc = "start"
    /\ \E outcome \in DiscoveryOutcomes, r \in raws :
          /\ disc' = outcome
          /\ IF DiscoveryFails(outcome)
             THEN pc' = "done" /\ UNCHANGED <<raw, asins>>
             ELSE /\ raw' = r
                  /\ asins' = CollectAsins(r, maxProducts)
                  /\ pc' = "loop"
    /\ UNCHANGED <<maxProducts, idx, products, log, storeVars, itemVars,
                   mainVars, parseVars, statsVars>>

Discover == DiscoverFrom(OrchRaws)

\* enumerate(asins, 1) counting from 0.
EnumerateRankFromZero(i) == i

\* enumerate(asins, 1): the rank of the item after i iterated ones.
EnumerateRank(i) == i + 1

\* time.sleep(random.uniform(3, 5)) closes the iteration of an appended
\* item; the "continue" of a skipped one leaves the body before it.
PacingSleepAfterAppend == TRUE

\* "if not details or "title" not in details": the item is skipped.
Skips(details) == details = EmptyDict \/ "title" \notin DOMAIN details

\* The body of one iteration on detail page p, save_product succeeding or
\* not (ok); interrupt names where a KeyboardInterrupt arrived, if one did.
IterateItem(p, ok, interrupt) ==
    LET rank == EnumerateRank(idx)
        asin == asins[idx + 1]
        res == get_product_details(asin, p)
        product == MakeProduct(asin, rank, res.details)
    IN IF Skips(res.details)
       THEN /\ log' = Append(log, [rank |-> rank, asin |-> asin,
                                   fault |-> res.fault,
                                   outcome |-> "skipped",
                                   loaded |-> p.nav = "ok",
                                   titleRead |-> p.title # None,
                                   slept |-> FALSE,
                                   interrupt |-> interrupt])
            /\ UNCHANGED <<products, store, saves>>
       ELSE /\ store' = SaveProduct(store, product, ok)
            /\ saves' = Append(saves, [product |-> product, ok |-> ok])
            /\ products' = Append(products, product)
            /\ log' = Append(log, [rank |-> rank, asin |-> asin,
                                   fault |-> res.fault,
                                   outcome |-> "appended",
                                   loaded |-> p.nav = "ok",
                                   titleRead |-> p.title # None,
                                   slept |-> PacingSleepAfterAppend,
                                   interrupt |-> interrupt])

\* One iteration of "for rank, asin in enumerate(asins, 1)".
ProcessItem ==
    /\ pc = "loop"
    /\ idx < Len(asins)
    /\ \E p \in OrchPages, ok \in BOOLEAN : IterateItem(p, ok, "none")
    /\ idx' = idx + 1
    /\ UNCHANGED <<pc, discVars, disc, asins, runs, itemVars, mainVars,
                   parseVars, statsVars>>

\* The loop is over: "return products".
Finish ==
    /\ pc = "loop"
    /\ idx = Len(asins)
    /\ pc' = "done"
    /\ UNCHANGED <<discVars, runVars, storeVars, itemVars, mainVars,
                   parseVars, statsVars>>

Next == Discover \/ ProcessItem \/ Finish

Spec == Init /\ [][Next]_vars

(***************************************************************************)
(* main: the command line, the session, one run, cleanup (SpecMain).       *)
(***************************************************************************)
\* What the item containers of the category page read, for the runs of main.
MainRaws == { <<>>, <<"B0A", "", "B0B", "B0A", "B0C">> }

InitMain ==
    /\ pc = "main"
    /\ NoDiscovery /\ NoRun /\ NoItem /\ NoParse /\ NoStats
    /\ store \in {EmptyStore, [rows |-> {OldRow}, seq |-> 1]}
    /\ saves = <<>> /\ runs = 0
    /\ argvUrl \in BOOLEAN
    /\ session = "none" /\ ending = "running" /\ exitCode = -1

\* "if len(sys.argv) < 2: ... sys.exit(1)"; else DatabaseManager() and
\* AmazonScraper(db_manager) are constructed.
MainArgs ==
    /\ pc = "main"
    /\ IF argvUrl
       THEN pc' = "init_driver" /\ runs' = runs + 1
                                /\ UNCHANGED <<ending, exitCode>>
       ELSE pc' = "exited" /\ ending' = "usage" /\ exitCode' = 1
                           /\ UNCHANGED runs
    /\ UNCHANGED <<discVars, runVars, store, saves, itemVars, argvUrl,
                   session, parseVars, statsVars>>

\* scraper.init_driver(): webdriver.Chrome(options) returns the session, or
\* raises and the exception reaches "except Exception" of main.
InitDriver ==
    /\ pc = "init_driver"
    /\ \E started \in BOOLEAN :
          IF started
          THEN pc' = "start" /\ session' = "open" /\ UNCHANGED ending
          ELSE pc' = "finally" /\ ending' = "fatal" /\ UNCHANGED session
    /\ UNCHANGED <<discVars, runVars, storeVars, itemVars, argvUrl,
                   exitCode, parseVars, statsVars>>

DiscoverMain == DiscoverFrom(MainRaws)

\* Where a KeyboardInterrupt can arrive while an item is processed.
InterruptPoints == {"page_load", "title_read", "pacing_sleep"}

\* The bare "except:" of the title block catches KeyboardInterrupt too.
SwallowsInterrupt(at) == at = "title_read"

\* Neither "except Exception" of get_product_details nor those of
\* scrape_top_products catch KeyboardInterrupt: it leaves the call.
Propagates(at) == ~SwallowsInterrupt(at)

\* A KeyboardInterrupt arrives while the item after idx is processed.
InterruptItem ==
    /\ pc = "loop"
    /\ idx < Len(asins)
    /\ \E at \in InterruptPoints, ok \in BOOLEAN :
          /\ CASE at = "page_load" ->
                    /\ log' = Append(log, [rank |-> EnumerateRank(idx),
                                           asin |-> asins[idx + 1],
                                           fault |-> "interrupt",
                                           outcome |-> "abandoned",
                                           loaded |-> FALSE,
                                           titleRead |-> FALSE,
                                           slept |-> FALSE,
                                           interrupt |-> at])
                    /\ UNCHANGED <<products, store, saves>>
               [] at = "title_read" ->
                    IterateItem([BasePage EXCEPT !.title = None], ok, at)
               [] at = "pacing_sleep" ->
                    IterateItem(BasePage, ok, at)
          /\ IF Propagates(at)
             THEN pc' = "finally" /\ ending' = "interrupt"
             ELSE UNCHANGED <<pc, ending>>
    /\ idx' = idx + 1
    /\ UNCHANGED <<discVars, disc, asins, runs, itemVars, argvUrl, session,
                   exitCode, parseVars, statsVars>>

\* A KeyboardInterrupt arrives during discovery: it passes the outer
\* "except Exception" of scrape_top_products.
InterruptDiscovery ==
    /\ pc = "start"
    /\ pc' = "finally"
    /\ ending' = "interrupt"
    /\ UNCHANGED <<discVars, runVars, storeVars, itemVars, argvUrl, session,
                   exitCode, parseVars, statsVars>>

\* "if products: ... RESULTS SUMMARY ... else: No products were scraped".
Report ==
    /\ pc = "done"
    /\ pc' = "finally"
    /\ ending' = IF products # <<>> THEN "summary" ELSE "no_products"
    /\ UNCHANGED <<discVars, runVars, storeVars, itemVars, argvUrl, session,
                   exitCode, parseVars, statsVars>>

\* close_driver without its driver.quit().
SessionAfterCloseLeaks(s) == s

\* close_driver: "if self.driver: self.driver.quit()".
SessionAfterClose(s) == IF s = "open" THEN "closed" ELSE s

\* main returns after its handlers: the interpreter exits with 0.
ReturnCode == 0

\* "finally: scraper.close_driver()", then main returns.
CloseDriver ==
    /\ pc = "finally"
    /\ session' = SessionAfterClose(session)
    /\ pc' = "exited"
    /\ exitCode' = ReturnCode
    /\ UNCHANGED <<discVars, runVars, storeVars, itemVars, argvUrl, ending,
                   parseVars, statsVars>>

NextMain ==
    \/ MainArgs \/ InitDriver \/ DiscoverMain \/ ProcessItem \/ Finish
    \/ InterruptItem \/ InterruptDiscovery \/ Report \/ CloseDriver

SpecMain == InitMain /\ [][NextMain]_vars

\* The process is sequential and every wait of it is bounded.
LiveMain == SpecMain /\ WF_vars(NextMain)

(***************************************************************************)
(* PriceExtractor.extract_price_value on a text (SpecParse).  A text is a  *)
(* sequence of characters; a word of letters stands as one element.  A     *)
(* float is [m, e]: the decimal m / 10^e, with no trailing zero in its     *)
(* fraction.                                                               *)
(***************************************************************************)
\* \d
Digits == {"0", "1", "2", "3", "4", "5", "6", "7", "8", "9"}

DigitVal(c) ==
    CASE c = "0" -> 0 [] c = "1" -> 1 [] c = "2" -> 2 [] c = "3" -> 3
      [] c = "4" -> 4 [] c = "5" -> 5 [] c = "6" -> 6 [] c = "7" -> 7
      [] c = "8" -> 8 [] c = "9" -> 9

\* [\$£€¥]
CurrencySymbols == {"$", "£", "€", "¥"}

\* [\d,]
IsNumberChar(c) == c \in Digits \cup {","}

\* \s
IsSpace(c) == c = " "

\* (Price|From|Save|Limited time deal|List Price|List:)
NoiseWords ==
    {"price", "from", "save", "limited time deal", "list price", "list:"}

\* flags=re.IGNORECASE
Lower(c) ==
    CASE c \in {"FROM", "From"} -> "from"
      [] c \in {"PRICE", "Price"} -> "price"
      [] c \in {"SAVE", "Save"} -> "save"
      [] OTHER -> c

RECURSIVE LStrip(_)
LStrip(t) == IF t # <<>> /\ IsSpace(Head(t)) THEN LStrip(Tail(t)) ELSE t

RECURSIVE RStrip(_)
RStrip(t) ==
    IF t # <<>> /\ IsSpace(t[Len(t)])
    THEN RStrip(SubSeq(t, 1, Len(t) - 1)) ELSE t

\* price_text.strip()
StripText(t) == RStrip(LStrip(t))

RECURSIVE SkipSeparators(_)
\* [\s:]*
SkipSeparators(t) ==
    IF t # <<>> /\ (IsSpace(Head(t)) \/ Head(t) = ":")
    THEN SkipSeparators(Tail(t)) ELSE t

\* re.sub(r"^(Price|From|...)[\s:]*", "", price_text, flags=re.IGNORECASE)
RemovePrefix(t) ==
    IF t # <<>> /\ Lower(Head(t)) \in NoiseWords
    THEN SkipSeparators(Tail(t)) ELSE t

RECURSIVE NumberRunEnd(_, _)
\* [\d,]+ from position i, greedy: the first position past the run.
NumberRunEnd(t, i) ==
    IF i <= Len(t) /\ IsNumberChar(t[i]) THEN NumberRunEnd(t, i + 1) ELSE i

RECURSIVE DigitRunEnd(_, _)
\* \d* from position i, greedy.
DigitRunEnd(t, i) ==
    IF i <= Len(t) /\ t[i] \in Digits THEN DigitRunEnd(t, i + 1) ELSE i

RECURSIVE SpaceRunEnd(_, _)
\* \s* from position i, greedy.
SpaceRunEnd(t, i) ==
    IF i <= Len(t) /\ IsSpace(t[i]) THEN SpaceRunEnd(t, i + 1) ELSE i

\* ([\d,]+\.?\d*) from position i, a number character: the first position
\* past the group.
GroupEnd(t, i) ==
    LET j == NumberRunEnd(t, i)
    IN IF j <= Len(t) /\ t[j] = "." THEN DigitRunEnd(t, j + 1) ELSE j

\* The group of a match of the pattern that starts at position i, if one
\* does.  A shorter group than the greedy one is followed by a number
\* character or a dot, never by \s*[\$£€¥], so backtracking adds no match.
MatchAt(pattern, t, i) ==
    CASE pattern = "symbol_number" ->
            LET s == SpaceRunEnd(t, i + 1)
            IN IF t[i] \in CurrencySymbols /\ s <= Len(t) /\ IsNumberChar(t[s])
               THEN Some(SubSeq(t, s, GroupEnd(t, s) - 1)) ELSE None
      [] pattern = "number_symbol" ->
            IF IsNumberChar(t[i])
            THEN LET e == GroupEnd(t, i)
                     s == SpaceRunEnd(t, e)
                 IN IF s <= Len(t) /\ t[s] \in CurrencySymbols
                    THEN Some(SubSeq(t, i, e - 1)) ELSE None
            ELSE None
      [] pattern = "number" ->
            IF IsNumberChar(t[i])
            THEN Some(SubSeq(t, i, GroupEnd(t, i) - 1)) ELSE None

\* re.search(pattern, price_text): the match at the leftmost position.
Search(pattern, t) ==
    LET hits == {i \in 1..Len(t) : MatchAt(pattern, t, i) # None}
    IN IF hits = {} THEN None
       ELSE MatchAt(pattern, t, CHOOSE i \in hits : \A j \in hits : i <= j)

\* price_match.group(1).replace(",", "")
RemoveCommas(g) == SelectSeq(g, LAMBDA c : c # ",")

RECURSIVE DigitsValue(_)
DigitsValue(ds) ==
    IF ds = <<>> THEN 0
    ELSE 10 * DigitsValue(SubSeq(ds, 1, Len(ds) - 1)) + DigitVal(ds[Len(ds)])

RECURSIVE Normal(_, _)
Normal(m, e) ==
    IF e > 0 /\ m % 10 = 0 THEN Normal(m \div 10, e - 1) ELSE [m |-> m, e |-> e]

\* float() raised ValueError.
ValueError == [m |-> -1, e |-> 0]

\* float(price_str) of digits with at most one dot: a string without a
\* digit ("", ".") raises ValueError.
Float(str) ==
    LET ds == SelectSeq(str, LAMBDA c : c \in Digits)
        dot == CHOOSE i \in 1..(Len(str) + 1) : i = Len(str) + 1 \/ str[i] = "."
    IN IF ds = <<>> THEN ValueError
       ELSE Normal(DigitsValue(ds), IF dot > Len(str) THEN 0 ELSE Len(str) - dot)

\* The patterns, the bare number first.
PricePatternsBareFirst == <<"number", "number_symbol", "symbol_number">>

\* price_patterns
PricePatterns == <<"symbol_number", "number_symbol", "number">>

RECURSIVE TryPatterns(_, _)
\* "for pattern in price_patterns" from the k-th on: the first match of a
\* pattern that parses to a float above 0 is returned; None after the last.
TryPatterns(t, k) ==
    IF k > Len(PricePatterns) THEN None
    ELSE LET price_match == Search(PricePatterns[k], t)
             price_val == Float(RemoveCommas(price_match[1]))
         IN IF price_match = None THEN TryPatterns(t, k + 1)
            ELSE IF price_val = ValueError THEN TryPatterns(t, k + 1)
            ELSE IF price_val.m > 0 THEN Some(price_val)
            ELSE TryPatterns(t, k + 1)

\* re.search(r"([\$£€¥])", price_text), "$" when there is none.
CurrencyOf(t) ==
    LET hits == {i \in 1..Len(t) : t[i] \in CurrencySymbols}
    IN IF hits = {} THEN "$"
       ELSE t[CHOOSE i \in hits : \A j \in hits : i <= j]

extract_price_value(price_text) ==
    IF price_text = <<>>
    THEN [done |-> TRUE, value |-> None, currency |-> "$"]
    ELSE LET t == StripText(RemovePrefix(StripText(price_text)))
         IN [done |-> TRUE, value |-> TryPatterns(t, 1),
             currency |-> CurrencyOf(t)]

MaxText == 4

TextAlphabet == {"FROM", "$", "€", "0", "5", ",", ".", " ", ":"}

Texts == UNION {[1..k -> TextAlphabet] : k \in 0..MaxText}

InitParse ==
    /\ pc = "parse"
    /\ text \in Texts
    /\ parsed = NotParsed
    /\ NoDiscovery /\ NoRun /\ NoStore /\ NoItem /\ NoMain /\ NoStats

ExtractPriceValue ==
    /\ pc = "parse"
    /\ parsed' = extract_price_value(text)
    /\ pc' = "parsed"
    /\ UNCHANGED <<discVars, runVars, storeVars, itemVars, mainVars, text,
                   statsVars>>

NextParse == ExtractPriceValue

SpecParse == InitParse /\ [][NextParse]_vars

(***************************************************************************)
(* GET /api/stats (src/api_server.py) over the products table (SpecStats). *)
(***************************************************************************)
RECURSIVE SumPrices(_)
\* The sum AVG(price) divides: the prices of rows, added up.
SumPrices(rows) ==
    IF rows = {} THEN 0
    ELSE LET r == CHOOSE x \in rows : TRUE
         IN r.price + SumPrices(rows \ {r})

\* The average over every row of the table, in cents.
AvgPriceAllRows(rows) ==
    IF rows = {} THEN None
    ELSE Some(RoundDiv(SumPrices(rows), Cardinality(rows)))

\* SELECT AVG(price) FROM products WHERE price > 0, then round(avg_price,
\* 2), in cents; AVG over no row is NULL.
AvgPrice(rows) ==
    LET priced == {r \in rows : r.price > 0}
    IN IF priced = {} THEN None
       ELSE Some(RoundDiv(SumPrices(priced), Cardinality(priced)))

\* get_stats: total is COUNT(*) of the table; "round(avg_price, 2) if
\* avg_price else 0".
get_stats(rows) ==
    LET avg_price == AvgPrice(rows)
    IN [asked |-> TRUE,
        total_products |-> Cardinality(rows),
        average_price |-> IF avg_price # None /\ avg_price[1] # 0
                          THEN avg_price[1] ELSE 0]

MaxRows == 4

\* The prices of the stored records: none read (0.0), or one in cents.
StatsPrices == {0, 1000, 2000}

StatsAsins == <<"B0A", "B0B", "B0C", "B0D", "B0E", "B0F">>

\* The table after the records priced ps[1], ps[2], ... were saved.
TableOf(ps) ==
    [rows |-> { Row(i, MakeProduct(StatsAsins[i], i,
                                   ("title" :> "Widget") @@ ("price" :> ps[i]))) :
                  i \in 1..Len(ps) },
     seq |-> Len(ps)]

PriceLists == UNION {[1..k -> StatsPrices] : k \in 0..MaxRows}

InitStats ==
    /\ pc = "stats"
    /\ store \in {TableOf(ps) : ps \in PriceLists}
    /\ saves = <<>> /\ runs = 1
    /\ NoDiscovery /\ NoRun /\ NoItem /\ NoMain /\ NoParse /\ NoStats

GetStats ==
    /\ pc = "stats"
    /\ stats' = get_stats(store.rows)
    /\ pc' = "answered"
    /\ UNCHANGED <<discVars, runVars, storeVars, itemVars, mainVars,
                   parseVars>>

NextStats == GetStats

SpecStats == InitStats /\ [][NextStats]_vars

(***************************************************************************)
(* Properties of one detail page (SpecItem).                               *)
(***************************************************************************)
ItemDone == pc = "item_done"

\* get_price ran to its end on this page.
PriceRead == ItemDone /\ page.nav = "ok" /\ page.scroll = "ok"

\* The order of the six price strategies as the specification gives it.
ClaimedOrder ==
    << "try_options_text", "try_select_variant", "try_offscreen_elements",
       "try_visible_price", "try_javascript_search", "try_data_attributes" >>

\* The positions of ClaimedOrder whose strategy yields a result on the page.
Yielding == {i \in 1..Len(ClaimedOrder) : CallMethod(ClaimedOrder[i], page) # None}

Min(S) == CHOOSE x \in S : \A y \in S : x <= y

\* C2: with no "unavailable" indicator, get_price invokes the six strategies
\* in the fixed order and stops at the first that yields a result, returning
\* its value; when none yields, all six are invoked and the result is the
\* sentinel (0.0, "$").
C2_ChainShortCircuit ==
    (PriceRead /\ page.avail # "unavailable") =>
        IF Yielding = {}
        THEN /\ result.gp.invoked = ClaimedOrder
             /\ result.gp.price = 0 /\ result.gp.currency = "$"
        ELSE LET k == Min(Yielding)
                 r == CallMethod(ClaimedOrder[k], page)[1]
             IN /\ result.gp.invoked = SubSeq(ClaimedOrder, 1, k)
                /\ result.gp.price = r[1] /\ result.gp.currency = r[2]

\* Strategies 1 and 2 miss (the variant is clicked, its three nodes hold no
\* price), strategy 3 hits on a later node, and 4-6 would have hit too.
C2_Witness ==
    /\ PriceRead /\ page.avail # "unavailable"
    /\ page.variants = "present"
    /\ page.visible > 0 /\ page.js > 0 /\ page.dataAttr > 0
    /\ result.gp.invoked = SubSeq(ClaimedOrder, 1, 3)
    /\ result.gp.price = 1300

\* C5 as claimed: once the detail page has loaded, every sub-extraction runs,
\* whatever the others did.
C5_AllSubExtractionsRun ==
    (ItemDone /\ page.nav = "ok") => result.ran = SubExtractions

\* C6: with an "unavailable" indicator found, get_price returns the sentinel
\* (0.0, "$"), no strategy is invoked and the variant is never clicked.
C6_UnavailableShortCircuit ==
    (PriceRead /\ page.avail = "unavailable") =>
        /\ result.gp.invoked = <<>>
        /\ ~result.gp.clicked
        /\ result.gp.price = 0 /\ result.gp.currency = "$"
        /\ result.details["price"] = 0 /\ result.details["currency"] = "$"

\* An unavailable item whose page offers a variant and several prices.
C6_Witness ==
    /\ PriceRead /\ page.avail = "unavailable"
    /\ page.variants = "present" /\ page.optionsText > 0
    /\ Len(page.offscreen) > 0 /\ page.offscreen[1] > 0
    /\ result.gp.invoked = <<>> /\ result.details["price"] = 0

(***************************************************************************)
(* Properties of discovery (SpecDiscovery).                                *)
(***************************************************************************)
\* A candidate read that gives a non-blank identifier.
IsIdentifier(a) == a # Stale /\ a # "" /\ a # " "

\* The elements of s in order, each kept at its first occurrence only.
FirstSeen(s) ==
    LET keep == {i \in 1..Len(s) : \A j \in 1..(i - 1) : s[j] # s[i]}
        F[i \in 0..Len(s)] ==
            IF i = 0 THEN <<>>
            ELSE IF i \in keep THEN Append(F[i - 1], s[i]) ELSE F[i - 1]
    IN F[Len(s)]

\* What the specification says discovery collects from raw for a count n.
ExpectedAsins(r, n) == Take(FirstSeen(SelectSeq(Take(r, 2 * n), IsIdentifier)), n)

\* C3 as claimed: the collected list is the first-seen-order sequence of the
\* distinct non-blank identifiers among the first 2n raw candidates, cut off
\* at n, and holds nothing from beyond position 2n.
C3_AmongFirst2nRaw ==
    pc = "collected" =>
        /\ asins = ExpectedAsins(raw, maxProducts)
        /\ \A i \in 1..Len(asins) :
              asins[i] \in Range(Take(raw, 2 * maxProducts))

\* The raw candidates whose attribute is not the empty string.
NonEmpty(r) == SelectSeq(r, LAMBDA a : a # "")

\* C3, amended: the collected list is the first-seen-order sequence of the
\* distinct non-blank identifiers among the first 2n raw candidates with a
\* non-empty attribute, cut off at n: no duplicates, no blanks, at most n
\* long, nothing from beyond the 2n-th such candidate.
C3_DiscoveryDedupCap ==
    /\ CollectAsins(<<"A", "", "B", "A", "C", "D", "B", "E">>, 3) = <<"A", "B", "C">>
    /\ pc = "collected" =>
        /\ asins = ExpectedAsins(NonEmpty(raw), maxProducts)
        /\ Len(asins) <= maxProducts
        /\ \A i, j \in 1..Len(asins) : i # j => asins[i] # asins[j]
        /\ \A i \in 1..Len(asins) :
              /\ IsIdentifier(asins[i])
              /\ asins[i] \in Range(Take(NonEmpty(raw), 2 * maxProducts))

\* A whitespace identifier and a duplicate are dropped, and an identifier
\* that first occurs beyond the 2n-th non-empty candidate is left out
\* although fewer than n were collected.
C3_Witness ==
    /\ pc = "collected" /\ maxProducts = 2
    /\ raw = <<"B0A", " ", "B0A", Stale, "B0B">>
    /\ asins = <<"B0A">>

(***************************************************************************)
(* Properties of the store (SpecStore).                                    *)
(***************************************************************************)
\* The positions of saves that succeeded for identifier a.
SavedAt(a) == {i \in 1..Len(saves) : saves[i].ok /\ saves[i].product.asin = a}

Max(S) == CHOOSE x \in S : \A y \in S : x >= y

EverSaved == {saves[i].product.asin : i \in {j \in 1..Len(saves) : saves[j].ok}}

\* C4: after any sequence of successful save_product calls the store holds
\* exactly one row per identifier ever saved, with the columns of the most
\* recent save for it (an unset field is null, not carried over), and no
\* other rows: no identifier disappears.
C4_LatestSnapshotPerIdentifier ==
    pc = "store" =>
        /\ {r.asin : r \in store.rows} = EverSaved
        /\ \A a \in EverSaved :
              /\ Cardinality({r \in store.rows : r.asin = a}) = 1
              /\ \A r \in store.rows :
                    r.asin = a => Columns(r) = saves[Max(SavedAt(a))].product

\* B0A saved with a list price, then saved again without one, in a later run:
\* one row, the list price null.
C4_Witness ==
    /\ pc = "store" /\ runs = 2
    /\ Len(saves) = 2 /\ saves[1].ok /\ saves[2].ok
    /\ saves[1].product.asin = "B0A" /\ saves[2].product.asin = "B0A"
    /\ saves[1].product.list_price = Some(2000)
    /\ saves[2].product.list_price = None
    /\ Cardinality(store.rows) = 1
    /\ \A r \in store.rows : r.list_price = None /\ r.title = "Gadget"

(***************************************************************************)
(* Properties of a run (Spec).                                             *)
(***************************************************************************)
RanksReturned == {products[i].rank : i \in 1..Len(products)}

RanksSaved == {saves[i].product.rank : i \in 1..Len(saves)}

\* C1 as claimed: an item whose detail extraction raised, at whatever point,
\* is skipped (no record of its rank is saved or returned), while every
\* discovered item is iterated and each one without a fault is returned.
C1_FaultedItemSkipped ==
    /\ \A i \in 1..Len(log) :
          log[i].fault # "none" =>
              /\ log[i].outcome = "skipped"
              /\ log[i].rank \notin RanksReturned
              /\ log[i].rank \notin RanksSaved
    /\ (pc = "done" /\ disc = "ok") =>
          /\ Len(log) = Len(asins)
          /\ \A i \in 1..Len(log) :
                log[i].fault = "none" => log[i].rank \in RanksReturned

\* C7: when loading the category page fails, the call returns an empty list,
\* having fetched no detail page and saved nothing.
C7_DiscoveryFailureIsFatal ==
    (pc = "done" /\ disc # "ok") =>
        /\ products = <<>>
        /\ log = <<>>
        /\ saves = <<>>
        /\ store \in {EmptyStore, [rows |-> {OldRow}, seq |-> 1]}

\* The wait for the item containers timed out and the call has returned.
C7_Witness == pc = "done" /\ disc = "wait_timeout" /\ products = <<>>

\* A save_product call that failed in this step.
SaveFailedNow ==
    /\ Len(saves') = Len(saves) + 1
    /\ ~saves'[Len(saves')].ok

\* C8: a failed save_product leaves the store exactly as it was (the rows
\* saved earlier included) and does not reach the loop: the iteration ends
\* as usual, and every discovered item is iterated before the call returns.
C8_SaveFailureContained ==
    /\ [][SaveFailedNow => (store' = store /\ pc' = "loop" /\ idx' = idx + 1)]_vars
    /\ []((pc = "done" /\ disc = "ok") => Len(log) = Len(asins))

\* The save of the second item failed between two that succeeded; both rows
\* are stored and the run went through all five items.
C8_Witness ==
    /\ pc = "done" /\ Len(asins) = 5 /\ Len(log) = 5
    /\ Len(saves) >= 3
    /\ saves[1].ok /\ ~saves[2].ok /\ saves[3].ok
    /\ \E r \in store.rows : Columns(r) = saves[1].product
    /\ \E r \in store.rows : Columns(r) = saves[3].product
    /\ ~\E r \in store.rows : r.asin = saves[2].product.asin

\* C9 as claimed: when the call returns, every returned record has a stored
\* row with its values, and the count returned is the count persisted.
C9_ReturnedRecordsAreStored ==
    pc = "done" =>
        /\ \A i \in 1..Len(products) :
              \E r \in store.rows : Columns(r) = products[i]
        /\ Len(products) = Cardinality({i \in 1..Len(saves) : saves[i].ok})

\* C10: every record saved or returned carries the 1-based index of its
\* identifier in the discovery list, whatever was skipped before it; the
\* returned ranks are strictly increasing and the identifiers distinct.
C10_RankIsDiscoveryIndex ==
    /\ \A i \in 1..Len(products) :
          /\ products[i].rank \in 1..Len(asins)
          /\ asins[products[i].rank] = products[i].asin
    /\ \A i \in 1..Len(saves) :
          /\ saves[i].product.rank \in 1..Len(asins)
          /\ asins[saves[i].product.rank] = saves[i].product.asin
    /\ \A i, j \in 1..Len(products) :
          i < j => /\ products[i].rank < products[j].rank
                   /\ products[i].asin # products[j].asin

\* Items 1 and 2 were skipped and item 3 is returned with rank 3.
C10_Witness ==
    /\ Len(log) >= 3
    /\ log[1].outcome = "skipped" /\ log[2].outcome = "skipped"
    /\ Len(products) >= 1 /\ products[1].rank = 3
    /\ products[1].asin = asins[3]

(***************************************************************************)
(* Properties of the record fields of one item (SpecItem).                 *)
(***************************************************************************)
\* The record scrape_top_products assembles from the details of the page.
ItemRecord == MakeProduct(ItemAsin, 1, result.details)

\* d is the quotient (list - price) / list * 100 rounded to 2 decimals, in
\* hundredths of a percent: no hundredth lies nearer to the quotient.
IsRoundedDiscount(d, list, price) ==
    LET err == d * list - (list - price) * 10000
    IN 2 * err <= list /\ 2 * err >= -list

\* C11: list_price and discount_percent are set exactly when the extracted
\* price and the parsed list price are both strictly positive, and then the
\* discount is (list_price - price) / list_price * 100 rounded to 2 decimals
\* (list 20.00, price 15.00: 25.00); otherwise both are absent.
C11_DiscountOnlyWhenBothPositive ==
    /\ Discount(2000, 1500) = 2500
    /\ ItemDone =>
          LET both == /\ page.nav = "ok" /\ ~result.gp.raised
                      /\ result.gp.price > 0 /\ page.listPrice > 0
          IN IF both
             THEN /\ ItemRecord.list_price = Some(page.listPrice)
                  /\ ItemRecord.discount_percent # None
                  /\ IsRoundedDiscount(ItemRecord.discount_percent[1],
                                       page.listPrice, result.gp.price)
             ELSE /\ ItemRecord.list_price = None
                  /\ ItemRecord.discount_percent = None
                  /\ "list_price" \notin DOMAIN result.details
                  /\ "discount_percent" \notin DOMAIN result.details

\* List 17.99 and price 15.00 give 16.62; the quotient is no whole hundredth.
C11_Witness ==
    /\ ItemDone /\ page.listPrice = 1799 /\ result.gp.price = 1500
    /\ ItemRecord.list_price = Some(1799)
    /\ ItemRecord.discount_percent = Some(1662)

\* C19 as claimed: a review count read as a non-negative integer is recorded,
\* 0 included, while a rating is recorded only when it is greater than 0.
C19_ZeroReviewCountRecorded ==
    (ItemDone /\ result.fault = "none") =>
        /\ page.reviews # None => ItemRecord.reviews_count = page.reviews
        /\ ItemRecord.rating # None <=> (page.rating # None /\ page.rating[1] > 0)


(***************************************************************************)
(* C13: an item whose detail page loaded but whose title could not be read *)
(* is not dropped: it takes the placeholder title "Product <asin>", is     *)
(* appended to the returned list and handed to save_product, both with its *)
(* discovery rank.                                                         *)
(***************************************************************************)
Untitled(i) == log[i].loaded /\ ~log[i].titleRead

Placeholder(i, product) ==
    /\ product.asin = log[i].asin
    /\ product.title = "Product " \o log[i].asin
    /\ product.rank = log[i].rank

C13_PlaceholderTitleKeepsItem ==
    \A i \in 1..Len(log) :
        Untitled(i) =>
            /\ log[i].outcome = "appended"
            /\ log[i].rank = i
            /\ \E j \in 1..Len(products) : Placeholder(i, products[j])
            /\ \E k \in 1..Len(saves) : Placeholder(i, saves[k].product)

C13_Witness ==
    /\ pc = "done"
    /\ \E i \in 2..Len(log) :
          /\ Untitled(i)
          /\ log[i - 1].outcome = "skipped"
          /\ \E j \in 1..Len(products) :
                Placeholder(i, products[j]) /\ products[j].rank = i

(***************************************************************************)
(* C16: between every two consecutive detail page navigations the pacing   *)
(* sleep runs, whatever became of the earlier item.                        *)
(***************************************************************************)
C16_PacingBetweenNavigations ==
    \A i \in 1..(Len(log) - 1) : log[i].slept

(***************************************************************************)
(* Properties of main (SpecMain, LiveMain).                                *)
(***************************************************************************)
Exited == pc = "exited"

\* C14: the browsing session is released (driver.quit) on every exit path
\* of main that acquired it, an interrupt and a fatal error included: the
\* process never exits with the session open, an open session is eventually
\* closed, and once it is closed no page operation follows (nothing more is
\* discovered or iterated and the session stays closed).
C14_SessionAlwaysReleased ==
    /\ [](Exited => session # "open")
    /\ [][session = "closed" =>
             /\ session' = "closed"
             /\ UNCHANGED <<disc, raw, asins, idx, log>>]_vars
    /\ (session = "open") ~> (session = "closed")

C14_Witness ==
    /\ Exited
    /\ session = "closed"
    /\ ending = "interrupt"
    /\ \E i \in 1..Len(log) : log[i].outcome = "abandoned"

\* C15: an interrupt that arrives while an item is processed is honoured
\* between items: that item runs to its end (appended or skipped), and the
\* loop then exits on the interrupt without starting another item.
C15_InterruptHonouredBetweenItems ==
    \A i \in 1..Len(log) :
        log[i].interrupt # "none" =>
            /\ log[i].outcome \in {"appended", "skipped"}
            /\ Len(log) = i
            /\ pc \in {"finally", "exited"}
            /\ ending = "interrupt"

\* C17: the process exits with a non-zero code when no category URL was
\* given and when discovery failed (an exception before the item loop, or
\* no item found).
DiscoveryFailed ==
    /\ disc \in DiscoveryOutcomes
    /\ DiscoveryFails(disc) \/ asins = <<>>

C17_NonZeroExitOnFailure ==
    Exited => ((~argvUrl \/ DiscoveryFailed) => exitCode # 0)

(***************************************************************************)
(* Properties of the statistics (SpecStats).                               *)
(***************************************************************************)
Priced == {r \in store.rows : r.price > 0}

\* avg is the quotient sum / n rounded to the cent.
IsRoundedMean(avg, sum, n) ==
    LET err == avg * n - sum
    IN 2 * err <= n /\ 2 * err >= -n

\* C18: the average price of the stats endpoint is taken over the stored
\* records whose price is strictly positive only, zero-priced records being
\* left out of the sum and of the denominator (prices 0, 10, 20, 0 give
\* 15.0), while total_products counts every stored record.
C18_AveragePriceOverPositive ==
    /\ get_stats(TableOf(<<0, 1000, 2000, 0>>).rows).average_price = 1500
    /\ stats.asked =>
          /\ stats.total_products = Cardinality(store.rows)
          /\ IF Priced = {}
             THEN stats.average_price = 0
             ELSE IsRoundedMean(stats.average_price, SumPrices(Priced),
                                Cardinality(Priced))

C18_Witness ==
    /\ stats.asked
    /\ store = TableOf(<<0, 1000, 2000, 0>>)
    /\ stats.average_price = 1500
    /\ stats.total_products = 4

(***************************************************************************)
(* Properties of extract_price_value (SpecParse).                          *)
(***************************************************************************)
\* The float the leftmost match of a pattern parses to, when it is above 0.
PositiveParse(pattern, t) ==
    LET g == Search(pattern, t)
        v == Float(RemoveCommas(g[1]))
    IN IF g # None /\ v # ValueError /\ v.m > 0 THEN Some(v) ELSE None

\* The text with its surrounding blanks and its leading noise word removed.
Cleaned == StripText(RemovePrefix(StripText(text)))

FirstSymbol(t) ==
    IF \E i \in 1..Len(t) : t[i] \in CurrencySymbols
    THEN t[Min({i \in 1..Len(t) : t[i] \in CurrencySymbols})]
    ELSE "$"

Dollars(m, e) == [done |-> TRUE, value |-> Some([m |-> m, e |-> e]),
                  currency |-> "$"]

\* C12: extract_price_value answers every text: the value is no-result or a
\* float above 0, never 0 or less; it is the parse of symbol-then-number
\* when that is above 0, else of number-then-symbol, else of the bare
\* number, else no-result; a leading noise word, in any case of letters,
\* does not change the answer; the currency is the first of $ £ € ¥ in the
\* text, or $ when there is none.
C12_PriceTextParsing ==
    /\ extract_price_value(<<"$", "1", "2", ".", "9", "9">>) = Dollars(1299, 2)
    /\ extract_price_value(<<"1", "2", ".", "9", "9", "$">>) = Dollars(1299, 2)
    /\ extract_price_value(<<"Price", ":", " ", "$", "1", ",", "2", "3", "4",
                             ".", "5", "6">>) = Dollars(123456, 2)
    /\ extract_price_value(<<"3", " ", "options", " ", "from", " ", "$", "9",
                             ".", "9", "9">>) = Dollars(999, 2)
    /\ extract_price_value(<<>>).value = None
    /\ parsed.done =>
          /\ parsed.value = None \/ parsed.value[1].m > 0
          /\ parsed.currency = FirstSymbol(text)
          /\ parsed.value =
                IF PositiveParse("symbol_number", Cleaned) # None
                THEN PositiveParse("symbol_number", Cleaned)
                ELSE IF PositiveParse("number_symbol", Cleaned) # None
                THEN PositiveParse("number_symbol", Cleaned)
                ELSE PositiveParse("number", Cleaned)
          /\ (text # <<>> /\ Lower(Head(text)) \in NoiseWords) =>
                parsed = extract_price_value(Tail(text))

\* "5€0": symbol-then-number parses to 0, number-then-symbol wins with 5.
C12_Witness ==
    /\ parsed.done
    /\ text = <<"5", "€", "0">>
    /\ parsed.value = Some([m |-> 5, e |-> 0])
    /\ parsed.currency = "€"


====
